---- MODULE Spec2Model ----
(***************************************************************************)
(* Model of the I2C LCD1602 driver (HD44780 behind a PCF8574 expander):    *)
(* the nibble/byte encoding, the init sequence, the buffer writer, the     *)
(* /dev/lcd1602 write handler and the probe/remove lifecycle.              *)
(*                                                                         *)
(* Every i2c_smbus_write_byte is one step of the model, so that transport  *)
(* writes of different threads interleave exactly where the code lets them.*)
(* Two specifications are built from the same actions:                     *)
(*   Spec    - the driver's lifecycle: probe, two concurrent writers on    *)
(*             /dev/lcd1602, remove.                                       *)
(*   SpecSeq - one thread calling one driver function on a live context,   *)
(*             with the bus, the lcd_write_nibble calls and the            *)
(*             lcd_send_command/lcd_send_data calls recorded.              *)
(***************************************************************************)
EXTENDS Integers, Sequences, FiniteSets, TLC

(* ---------------------------------------------------------------------- *)
(* Program constants                                                       *)
(* ---------------------------------------------------------------------- *)
LCD_RS == 1
LCD_RW == 2
LCD_EN == 4
LCD_BL == 8

LCD_CLEAR == 1
LCD_HOME == 2
LCD_ENTRY_MODE == 4
LCD_DISPLAY_CONTROL == 8
LCD_FUNCTION_SET == 32

LCD_ENTRY_LEFT == 2
LCD_DISPLAY_ON == 4
LCD_CURSOR_OFF == 0
LCD_BLINK_OFF == 0
LCD_4BIT_MODE == 0
LCD_2LINE == 8
LCD_5x8DOTS == 0

\* the literal 0xC0 of lcd_write_buffer and lcd1602_probe: DDRAM address of row 1
LCD_ROW1 == 192
\* the literal 16 of lcd_write_buffer: the index at which the second line starts
LCD_COLS == 16
\* the literal 32 of lcd_write_buffer: 16 chars per line, 2 lines
LCD_CHARS == 32
\* sizeof(kbuf) in lcd1602_write
KBUF_SIZE == 64
\* the raw nibbles of the 4-bit initialisation idiom, as lcd_init_display passes them
LCD_INIT_8BIT == 48
LCD_INIT_4BIT == 32

\* udelay(1) and udelay(50) of lcd_write_nibble
EN_PULSE_US == 1
EN_SETTLE_US == 50

\* errno values the driver returns itself
EIO == 5
ENOMEM == 12
EFAULT == 14

(* ---------------------------------------------------------------------- *)
(* Bounds of the model                                                     *)
(* ---------------------------------------------------------------------- *)
\* largest count of an external write in SpecSeq (above sizeof(kbuf))
MaxCount == 65
\* largest count of an external write in Spec (two writers, probe, remove)
MaxConcCount == 1

(* ---------------------------------------------------------------------- *)
(* u8 arithmetic                                                           *)
(* ---------------------------------------------------------------------- *)
RECURSIVE BitAnd(_, _)
BitAnd(a, b) ==
    IF a = 0 \/ b = 0 THEN 0
    ELSE (a % 2) * (b % 2) + 2 * BitAnd(a \div 2, b \div 2)

RECURSIVE BitOr(_, _)
BitOr(a, b) ==
    IF a = 0 THEN b
    ELSE IF b = 0 THEN a
    ELSE (IF a % 2 = 1 \/ b % 2 = 1 THEN 1 ELSE 0) + 2 * BitOr(a \div 2, b \div 2)

\* ~m on a u8
BitNot8(m) == 255 - m

\* (x << n) truncated to u8
Shl8(x, n) == (x * (2 ^ n)) % 256

Min(a, b) == IF a < b THEN a ELSE b

Bytes == 0 .. 255

\* what i2c_smbus_write_byte returns: 0, or a negative errno of the adapter
\* (-EIO, -EREMOTEIO)
TransportResults == {0, -5, -121}
\* the same with one error value, for Spec
ConcTransportResults == {0, -5}

(* ---------------------------------------------------------------------- *)
(* NibbleEncoder and CommandProtocol                                       *)
(* ---------------------------------------------------------------------- *)
\* mutant of lcd_write_nibble: the mode selects the RW bit
lcd_write_nibble_rw(nibble, mode, bl) ==
    LET placed == Shl8(BitAnd(nibble, 15), 4)
        withRW == IF mode # 0 THEN BitOr(placed, LCD_RW)
                  ELSE BitAnd(placed, BitNot8(LCD_RW))
        withBL == BitOr(withRW, bl)
    IN  BitOr(withBL, LCD_EN)

\* mutant of lcd_write_nibble: lcd->backlight is not put into the image
lcd_write_nibble_no_backlight(nibble, mode, bl) ==
    LET placed == Shl8(BitAnd(nibble, 15), 4)
        withRS == IF mode # 0 THEN BitOr(placed, LCD_RS)
                  ELSE BitAnd(placed, BitNot8(LCD_RS))
    IN  BitOr(withRS, LCD_EN)

\* lcd_write_nibble: the port image of the first transport write (EN high),
\* built from the u8 arguments nibble and mode and from lcd->backlight
lcd_write_nibble(nibble, mode, bl) ==
    LET placed == Shl8(BitAnd(nibble, 15), 4)
        withRS == IF mode # 0 THEN BitOr(placed, LCD_RS)
                  ELSE BitAnd(placed, BitNot8(LCD_RS))
        withBL == BitOr(withRS, bl)
    IN  BitOr(withBL, LCD_EN)

\* mutant of the second transport write: EN is left set
EnLowImageKeepsEn(data) == data

\* mutant of the second transport write: RS is cleared instead of EN
EnLowImageClearsRs(data) == BitAnd(data, BitNot8(LCD_RS))

\* lcd_write_nibble: the port image of the second transport write (EN low)
EnLowImage(data) == BitAnd(data, BitNot8(LCD_EN))

\* mutant of lcd_write_byte: the low nibble is sent first
lcd_write_byte_low_first(byte, half) ==
    IF half = 0 THEN BitAnd(byte * 16, 240)
    ELSE BitAnd(byte, 240)

\* lcd_write_byte: the nibble argument of its first (half = 0) and of its
\* second (half = 1) call of lcd_write_nibble
lcd_write_byte(byte, half) ==
    IF half = 0 THEN BitAnd(byte, 240)
    ELSE BitAnd(byte * 16, 240)

\* A send is one call made by a sequencer: a raw lcd_write_nibble call or an
\* lcd_write_byte call (two nibbles). idx is the buffer index a data byte was
\* read from (-1 when there is none).
RawNibble(nibble) == [fn |-> "nibble", val |-> nibble, mode |-> 0, idx |-> -1]
lcd_send_command(cmd) == [fn |-> "byte", val |-> cmd, mode |-> 0, idx |-> -1]
lcd_send_data(data) == [fn |-> "byte", val |-> data, mode |-> LCD_RS, idx |-> -1]

(* ---------------------------------------------------------------------- *)
(* InitSequencer                                                           *)
(* ---------------------------------------------------------------------- *)
\* lcd_init_display: the calls it makes, in order (each aborts the rest on error)
lcd_init_display ==
    << RawNibble(LCD_INIT_8BIT),
       RawNibble(LCD_INIT_8BIT),
       RawNibble(LCD_INIT_8BIT),
       RawNibble(LCD_INIT_4BIT),
       lcd_send_command(BitOr(BitOr(LCD_FUNCTION_SET, LCD_4BIT_MODE),
                              BitOr(LCD_2LINE, LCD_5x8DOTS))),
       lcd_send_command(BitOr(BitOr(LCD_DISPLAY_CONTROL, LCD_DISPLAY_ON),
                              BitOr(LCD_CURSOR_OFF, LCD_BLINK_OFF))),
       lcd_send_command(LCD_CLEAR),
       lcd_send_command(BitOr(LCD_ENTRY_MODE, LCD_ENTRY_LEFT)) >>

(* ---------------------------------------------------------------------- *)
(* lcd_write_string and BufferWriter                                       *)
(* ---------------------------------------------------------------------- *)
\* lcd_write_string: one lcd_send_data per character up to the terminator
lcd_write_string(str) == [k \in 1 .. Len(str) |-> lcd_send_data(str[k])]

\* "Hello from" and "Raspberry Pi!" of lcd1602_probe
HelloLine0 == <<72, 101, 108, 108, 111, 32, 102, 114, 111, 109>>
HelloLine1 == <<82, 97, 115, 112, 98, 101, 114, 114, 121, 32, 80, 105, 33>>

\* lcd_write_buffer: max_len = min(len, 32)
max_len(len) == Min(len, LCD_CHARS)

\* mutants of the second-line test: every index from 16 on; one index early
AtSecondLineOrLater(i) == i >= LCD_COLS
AtSecondLineEarly(i) == i + 1 = LCD_COLS

\* lcd_write_buffer: the test "i == 16" that moves to the second line
AtSecondLine(i) == i = LCD_COLS

\* lcd_write_buffer: buf[i] (buf is a sequence, C index i is position i + 1)
BufAt(buf, i) == buf[i + 1]

\* lcd_write_buffer: one iteration of the for loop
BufferIteration(buf, i) ==
    (IF AtSecondLine(i) THEN <<lcd_send_command(LCD_ROW1)>> ELSE <<>>)
    \o << [lcd_send_data(BufAt(buf, i)) EXCEPT !.idx = i] >>

RECURSIVE BufferLoop(_, _, _)
BufferLoop(buf, i, n) ==
    IF i < n THEN BufferIteration(buf, i) \o BufferLoop(buf, i + 1, n)
    ELSE <<>>

\* mutant of the prologue: Home before Clear
BufferPrologueHomeFirst == <<lcd_send_command(LCD_HOME), lcd_send_command(LCD_CLEAR)>>

\* lcd_write_buffer: Clear, Home, then the loop over i < max_len
BufferPrologue == <<lcd_send_command(LCD_CLEAR), lcd_send_command(LCD_HOME)>>

lcd_write_buffer(buf, len) == BufferPrologue \o BufferLoop(buf, 0, max_len(len))

(* ---------------------------------------------------------------------- *)
(* lcd1602_write helpers                                                   *)
(* ---------------------------------------------------------------------- *)
\* mutant of to_copy: the whole of kbuf is filled, no room for the '\0'
to_copy_whole_kbuf(count) == Min(count, KBUF_SIZE)

\* to_copy = min(count, sizeof(kbuf) - 1)
to_copy(count) == Min(count, KBUF_SIZE - 1)

\* the user's buffer: byte i of pattern p (a start value and a stride)
UserPatterns == {<<65, 1>>, <<250, 7>>}
\* the pattern the writers of Spec use
ConcUserPatterns == {<<65, 1>>}
UByte(p, i) == (p[1] + p[2] * i) % 256

\* kbuf after copy_from_user(kbuf, ubuf, n) and kbuf[n] = '\0'
CopyFromUser(p, n) == [k \in 1 .. n + 1 |-> IF k <= n THEN UByte(p, k - 1) ELSE 0]

\* mutant of the return value: the number of bytes copied
WriteReturnCopied(ret, count) == IF ret < 0 THEN ret ELSE to_copy(count)

\* what lcd1602_write returns after lcd_write_buffer returned ret
WriteReturn(ret, count) == IF ret < 0 THEN ret ELSE count

(* ---------------------------------------------------------------------- *)
(* State                                                                   *)
(* ---------------------------------------------------------------------- *)
VARIABLES
    th,          \* per thread: where it is in the driver function it runs
    ctx,         \* struct lcd1602_data: "none" | "live" | "freed"
    backlight,   \* lcd->backlight
    lock,        \* lcd->lock: the thread holding the mutex, or "none"
    registered,  \* whether misc_register has exposed /dev/lcd1602
    last,        \* the most recent i2c_smbus_write_byte: thread, image, result,
                 \* and whether the thread held lcd->lock
    bus,         \* SpecSeq: every transport write so far, in order
    nibs,        \* SpecSeq: every lcd_write_nibble call so far (nibble, mode)
    sends        \* SpecSeq: every call a sequencer made so far

vars == <<th, ctx, backlight, lock, registered, last, bus, nibs, sends>>
logs == <<bus, nibs, sends>>

Writers == {"w1", "w2"}
\* the threads of Spec, and the one caller of SpecSeq
Threads == {"probe", "remove"} \cup Writers
Callers == {"h"}

\* A thread outside the driver. todo is what is left of the function it runs:
\* a sequence of calls, each a sequence of sends; a transport error ends the
\* current call. half and phase say where lcd_write_byte and lcd_write_nibble
\* stand inside the first send; data is lcd_write_nibble's local; wrote says
\* whether the function has issued a transport write yet. env is what the
\* kernel answered lcd1602_probe (see ProbeStart).
NoAnswers == [capable |-> TRUE, allocated |-> TRUE, uninit |-> 0, reg |-> 1]

IdleThread ==
    [pc |-> "idle", op |-> "none", arg |-> 0, todo |-> <<>>, half |-> 0,
     phase |-> "hi", data |-> 0, ret |-> 0, result |-> 0, count |-> 0,
     pat |-> <<0, 0>>, buf |-> <<>>, wrote |-> FALSE, env |-> NoAnswers]

NoWrite == [t |-> "none", img |-> 0, r |-> 0, held |-> FALSE]

\* the module is loaded, no device is bound yet
Init ==
    /\ th = [t \in Threads |-> IdleThread]
    /\ ctx = "none"
    /\ backlight = 0
    /\ lock = "none"
    /\ registered = FALSE
    /\ last = NoWrite
    /\ bus = <<>>
    /\ nibs = <<>>
    /\ sends = <<>>

\* a bound device: lcd1602_probe has returned 0
InitSeq ==
    /\ th = [t \in Callers |-> IdleThread]
    /\ ctx = "live"
    /\ backlight = LCD_BL
    /\ lock = "none"
    /\ registered = TRUE
    /\ last = NoWrite
    /\ bus = <<>>
    /\ nibs = <<>>
    /\ sends = <<>>

(* ---------------------------------------------------------------------- *)
(* One transport write                                                     *)
(* ---------------------------------------------------------------------- *)
Running(t) == th[t].pc = "run" /\ th[t].todo # <<>>

CurSend(t) == Head(Head(th[t].todo))

\* the nibble argument of the lcd_write_nibble call thread t is in
NibbleArg(t) ==
    IF CurSend(t).fn = "nibble" THEN CurSend(t).val
    ELSE lcd_write_byte(CurSend(t).val, th[t].half)

\* lcd1602_probe (after misc_register) and lcd1602_remove call without
\* assigning the result; every other caller keeps it in ret
KeepsResult(op) == op \notin {"probe", "remove"}

\* lcd_write_nibble returned 0: lcd_write_byte goes on to the low nibble, or
\* the sequencer goes on to its next send, or the call returns 0
Advance(rec) ==
    IF Head(Head(rec.todo)).fn = "byte" /\ rec.half = 0
    THEN [rec EXCEPT !.half = 1, !.phase = "hi"]
    ELSE IF Tail(Head(rec.todo)) = <<>>
    THEN [rec EXCEPT !.todo = Tail(@), !.half = 0, !.phase = "hi",
                     !.ret = IF KeepsResult(rec.op) THEN 0 ELSE @]
    ELSE [rec EXCEPT !.todo = <<Tail(Head(@))>> \o Tail(@), !.half = 0,
                     !.phase = "hi"]

\* mutant of the error path: a failed transport write is treated as a
\* successful one
AbortIgnored(rec, r) == Advance(rec)

\* "if (ret < 0) return ret" all the way up to the end of the current call
Abort(rec, r) ==
    [rec EXCEPT !.todo = Tail(@), !.half = 0, !.phase = "hi",
                !.ret = IF KeepsResult(rec.op) THEN r ELSE @]

\* lcd_write_nibble up to its first i2c_smbus_write_byte (EN high), which
\* returns r
EnHigh(t, r) ==
    /\ Running(t)
    /\ th[t].phase = "hi"
    /\ LET d == lcd_write_nibble(NibbleArg(t), CurSend(t).mode, backlight)
           rec == [th[t] EXCEPT !.data = d, !.wrote = TRUE]
       IN  /\ last' = [t |-> t, img |-> d, r |-> r, held |-> lock = t]
           /\ th' = [th EXCEPT ![t] = IF r < 0 THEN Abort(rec, r)
                                      ELSE [rec EXCEPT !.phase = "lo"]]
    /\ UNCHANGED <<ctx, backlight, lock, registered>>

\* lcd_write_nibble from udelay(1) to its return: the second write (EN low),
\* which returns r
EnLow(t, r) ==
    /\ Running(t)
    /\ th[t].phase = "lo"
    /\ LET d == EnLowImage(th[t].data)
           rec == [th[t] EXCEPT !.data = d, !.wrote = TRUE]
       IN  /\ last' = [t |-> t, img |-> d, r |-> r, held |-> lock = t]
           /\ th' = [th EXCEPT ![t] = IF r < 0 THEN Abort(rec, r)
                                      ELSE Advance(rec)]
    /\ UNCHANGED <<ctx, backlight, lock, registered>>

\* a thread enters a driver function whose calls are plan
Enter(t, op, arg, plan) ==
    [th[t] EXCEPT !.pc = "run", !.op = op, !.arg = arg, !.todo = plan,
                  !.half = 0, !.phase = "hi", !.wrote = FALSE, !.ret = 0]

Return(t, result) == [th[t] EXCEPT !.pc = "done", !.result = result]

(* ---------------------------------------------------------------------- *)
(* lcd1602_write                                                           *)
(* ---------------------------------------------------------------------- *)
\* mutant of mutex_lock: it never blocks
MutexNeverBlocks(t) == TRUE

\* mutex_lock(&lcd->lock) can return
MutexAvailable(t) == lock = "none"

\* mutant of the count test: a zero count goes on like any other
ZeroCountNotTested(count) == FALSE

\* lcd1602_write: if (!count) return 0
ZeroCount(count) == count = 0

\* lcd1602_write up to mutex_lock: the count test and copy_from_user
WriteEnter(t, maxCount, patterns) ==
    /\ th[t].pc = "idle"
    /\ registered
    /\ ctx = "live"
    /\ \E count \in 0 .. maxCount, p \in patterns, fault \in BOOLEAN :
        th' = [th EXCEPT ![t] =
                 IF ZeroCount(count)
                 THEN [Return(t, 0) EXCEPT !.op = "write"]
                 ELSE IF fault
                 THEN [Return(t, -EFAULT) EXCEPT !.op = "write", !.count = count,
                                                 !.pat = p]
                 ELSE [@ EXCEPT !.pc = "lock", !.op = "write", !.count = count,
                                !.pat = p,
                                !.buf = CopyFromUser(p, to_copy(count))]]
    /\ UNCHANGED <<ctx, backlight, lock, registered, last>>

\* mutex_lock returns; lcd_write_buffer(lcd, kbuf, to_copy) is entered
WriteLock(t) ==
    /\ th[t].pc = "lock"
    /\ MutexAvailable(t)
    /\ lock' = t
    /\ th' = [th EXCEPT ![t] =
                Enter(t, "write", 0,
                      <<lcd_write_buffer(th[t].buf, to_copy(th[t].count))>>)]
    /\ UNCHANGED <<ctx, backlight, registered, last>>

\* mutant of the unlock: "if (ret < 0) return ret" comes before mutex_unlock
UnlockOnSuccessOnly(owner, ret) == IF ret < 0 THEN owner ELSE "none"

\* lcd1602_write: mutex_unlock(&lcd->lock) right after lcd_write_buffer
\* returned ret, before ret is looked at: the owner of the lock afterwards
UnlockAfterBuffer(owner, ret) == "none"

\* lcd_write_buffer has returned: mutex_unlock, then the return value
WriteUnlock(t) ==
    /\ th[t].pc = "run"
    /\ th[t].op = "write"
    /\ th[t].todo = <<>>
    /\ lock' = UnlockAfterBuffer(t, th[t].ret)
    /\ th' = [th EXCEPT ![t] = Return(t, WriteReturn(th[t].ret, th[t].count))]
    /\ UNCHANGED <<ctx, backlight, registered, last>>

(* ---------------------------------------------------------------------- *)
(* lcd1602_remove                                                          *)
(* ---------------------------------------------------------------------- *)
\* mutant of lcd1602_remove: Clear and then Home, as lcd_write_buffer does
RemoveCallsClearHome ==
    << <<lcd_send_command(LCD_CLEAR)>>, <<lcd_send_command(LCD_HOME)>> >>

\* lcd1602_remove: the calls it makes on the display, the result ignored
RemoveCalls == << <<lcd_send_command(LCD_CLEAR)>> >>

\* lcd1602_remove up to lcd_send_command: misc_deregister. The device is
\* unbound by unloading the module (lcd1602_unload.sh), which the kernel
\* refuses while a file of lcd1602_fops (.owner = THIS_MODULE) is open, so the
\* device is bound (probe has returned 0) and no write call is in progress.
RemoveStart(t) ==
    /\ th[t].pc = "idle"
    /\ ctx = "live"
    /\ registered
    /\ \A u \in DOMAIN th : u # t => th[u].pc \in {"idle", "done"}
    /\ registered' = FALSE
    /\ th' = [th EXCEPT ![t] = Enter(t, "remove", 0, RemoveCalls)]
    /\ UNCHANGED <<ctx, backlight, lock, last>>

\* lcd1602_remove: kfree(lcd) and return 0, whatever the Clear returned
RemoveReturn(t) ==
    /\ th[t].pc = "run"
    /\ th[t].op = "remove"
    /\ th[t].todo = <<>>
    /\ ctx' = "freed"
    /\ th' = [th EXCEPT ![t] = Return(t, 0)]
    /\ UNCHANGED <<backlight, lock, registered, last>>

(* ---------------------------------------------------------------------- *)
(* SpecSeq: one thread, one driver function, everything recorded           *)
(* ---------------------------------------------------------------------- *)
CallSendCommand(t) ==
    /\ th[t].pc = "idle"
    /\ \E b \in Bytes :
        th' = [th EXCEPT ![t] = Enter(t, "cmd", b, << <<lcd_send_command(b)>> >>)]
    /\ UNCHANGED <<ctx, backlight, lock, registered, last>>

CallSendData(t) ==
    /\ th[t].pc = "idle"
    /\ \E b \in Bytes :
        th' = [th EXCEPT ![t] = Enter(t, "data", b, << <<lcd_send_data(b)>> >>)]
    /\ UNCHANGED <<ctx, backlight, lock, registered, last>>

CallInitDisplay(t) ==
    /\ th[t].pc = "idle"
    /\ th' = [th EXCEPT ![t] = Enter(t, "init", 0, <<lcd_init_display>>)]
    /\ UNCHANGED <<ctx, backlight, lock, registered, last>>

\* the called function returns ret to the caller
CallReturn(t) ==
    /\ th[t].pc = "run"
    /\ th[t].op \in {"cmd", "data", "init"}
    /\ th[t].todo = <<>>
    /\ th' = [th EXCEPT ![t] = Return(t, th[t].ret)]
    /\ UNCHANGED <<ctx, backlight, lock, registered, last>>

\* lcd_write_nibble: the udelay (in us) that follows a transport write of
\* the given phase that returned r; none after a failed write
DelayAfter(phase, r) ==
    IF r < 0 THEN 0
    ELSE IF phase = "hi" THEN EN_PULSE_US
    ELSE EN_SETTLE_US

\* the records a transport write of thread t that returns r adds
Record(t, r) ==
    /\ bus' = Append(bus, [img |-> last'.img, r |-> r,
                           us |-> DelayAfter(th[t].phase, r)])
    /\ nibs' = IF th[t].phase = "hi"
               THEN Append(nibs, [nibble |-> NibbleArg(t), mode |-> CurSend(t).mode])
               ELSE nibs
    /\ sends' = IF th[t].phase = "hi" /\ th[t].half = 0
                THEN Append(sends, CurSend(t))
                ELSE sends

NextSeq ==
    \/ CallSendCommand("h") /\ UNCHANGED logs
    \/ CallSendData("h") /\ UNCHANGED logs
    \/ CallInitDisplay("h") /\ UNCHANGED logs
    \/ CallReturn("h") /\ UNCHANGED logs
    \/ WriteEnter("h", MaxCount, UserPatterns) /\ UNCHANGED logs
    \/ WriteLock("h") /\ UNCHANGED logs
    \/ WriteUnlock("h") /\ UNCHANGED logs
    \/ RemoveStart("h") /\ UNCHANGED logs
    \/ RemoveReturn("h") /\ UNCHANGED logs
    \/ \E r \in TransportResults : EnHigh("h", r) /\ Record("h", r)
    \/ \E r \in TransportResults : EnLow("h", r) /\ Record("h", r)

SpecSeq == InitSeq /\ [][NextSeq]_vars

(* ---------------------------------------------------------------------- *)
(* Spec: lcd1602_probe, lcd1602_write on two threads, lcd1602_remove       *)
(* ---------------------------------------------------------------------- *)
\* what the uninitialised int ret of lcd1602_probe may hold when it is
\* tested (its assignment from lcd_init_display is commented out)
UninitialisedRet == {-22, 0}

\* what misc_register returns: 0, or a negative errno (-EBUSY)
RegisterResults == {0, -16}

\* mutant of lcd1602_probe: the context is allocated before the capability
\* check
ProbeOutcomeAllocFirst(capable, allocated, ret) ==
    IF ~allocated
    THEN [pc |-> "done", result |-> -ENOMEM, ctx |-> "none", set |-> FALSE]
    ELSE IF ~capable
    THEN [pc |-> "done", result |-> -EIO, ctx |-> "freed", set |-> TRUE]
    ELSE IF ret < 0
    THEN [pc |-> "done", result |-> ret, ctx |-> "freed", set |-> TRUE]
    ELSE [pc |-> "register", result |-> 0, ctx |-> "live", set |-> TRUE]

\* lcd1602_probe up to misc_register, given what i2c_check_functionality and
\* devm_kzalloc answer and what the uninitialised ret holds: where probe
\* stands, what it returns if it returns, what becomes of the context
\* (devm frees it when probe fails), and whether its fields were set
ProbeOutcome(capable, allocated, ret) ==
    IF ~capable
    THEN [pc |-> "done", result |-> -EIO, ctx |-> "none", set |-> FALSE]
    ELSE IF ~allocated
    THEN [pc |-> "done", result |-> -ENOMEM, ctx |-> "none", set |-> FALSE]
    ELSE IF ret < 0
    THEN [pc |-> "done", result |-> ret, ctx |-> "freed", set |-> TRUE]
    ELSE [pc |-> "register", result |-> 0, ctx |-> "live", set |-> TRUE]

\* mutant of the backlight assignment: the field is left as devm_kzalloc
\* zeroed it
ProbeBacklightKept(zeroed) == zeroed

\* lcd1602_probe: lcd->backlight = LCD_BL, on the field devm_kzalloc zeroed
ProbeBacklight(zeroed) == LCD_BL

\* lcd1602_probe up to misc_register: the capability check, devm_kzalloc,
\* the context's fields, and the test of ret
ProbeStart ==
    /\ th["probe"].pc = "idle"
    /\ \E capable \in BOOLEAN, allocated \in BOOLEAN, ret \in UninitialisedRet :
        LET o == ProbeOutcome(capable, allocated, ret)
        IN  /\ ctx' = o.ctx
            /\ backlight' = IF o.set THEN ProbeBacklight(0) ELSE backlight
            /\ lock' = IF o.set THEN "none" ELSE lock
            /\ th' = [th EXCEPT !["probe"] =
                        [@ EXCEPT !.pc = o.pc, !.op = "probe",
                                  !.result = o.result,
                                  !.ret = IF o.set THEN ret ELSE @,
                                  !.env = [capable |-> capable,
                                           allocated |-> allocated,
                                           uninit |-> ret, reg |-> 1]]]
    /\ UNCHANGED <<registered, last>>

\* lcd1602_probe: what it sends after misc_register, each result ignored
ProbeGreeting ==
    << lcd_write_string(HelloLine0),
       <<lcd_send_command(LCD_ROW1)>>,
       lcd_write_string(HelloLine1) >>

\* lcd1602_probe: misc_register
ProbeRegister ==
    /\ th["probe"].pc = "register"
    /\ \E r \in RegisterResults :
        IF r # 0
        THEN /\ ctx' = "freed"
             /\ registered' = FALSE
             /\ th' = [th EXCEPT !["probe"] =
                         [Return("probe", r) EXCEPT !.ret = r, !.env.reg = r]]
        ELSE /\ ctx' = ctx
             /\ registered' = TRUE
             /\ th' = [th EXCEPT !["probe"] =
                         [@ EXCEPT !.pc = "run", !.todo = ProbeGreeting, !.ret = r,
                                   !.env.reg = r]]
    /\ UNCHANGED <<backlight, lock, last>>

\* lcd1602_probe: return 0 after the greeting
ProbeReturn ==
    /\ th["probe"].pc = "run"
    /\ th["probe"].todo = <<>>
    /\ th' = [th EXCEPT !["probe"] = Return("probe", 0)]
    /\ UNCHANGED <<ctx, backlight, lock, registered, last>>

Next ==
    \/ ProbeStart /\ UNCHANGED logs
    \/ ProbeRegister /\ UNCHANGED logs
    \/ ProbeReturn /\ UNCHANGED logs
    \/ RemoveStart("remove") /\ UNCHANGED logs
    \/ RemoveReturn("remove") /\ UNCHANGED logs
    \/ \E w \in Writers : WriteEnter(w, MaxConcCount, ConcUserPatterns) /\ UNCHANGED logs
    \/ \E w \in Writers : WriteLock(w) /\ UNCHANGED logs
    \/ \E w \in Writers : WriteUnlock(w) /\ UNCHANGED logs
    \/ \E t \in Threads, r \in ConcTransportResults : EnHigh(t, r) /\ UNCHANGED logs
    \/ \E t \in Threads, r \in ConcTransportResults : EnLow(t, r) /\ UNCHANGED logs

Spec == Init /\ [][Next]_vars

(* ---------------------------------------------------------------------- *)
(* SpecLive: the device is bound and threads call lcd1602_write           *)
(* ---------------------------------------------------------------------- *)
\* lcd1602_probe has returned 0: the context is live, its mutex initialised
\* and free, the misc device registered
InitLive ==
    /\ th = [t \in Writers |-> IdleThread]
    /\ ctx = "live"
    /\ backlight = LCD_BL
    /\ lock = "none"
    /\ registered = TRUE
    /\ last = NoWrite
    /\ bus = <<>>
    /\ nibs = <<>>
    /\ sends = <<>>

\* what a thread inside lcd1602_write does next: it comes back from
\* mutex_lock, an i2c_smbus_write_byte of its returns, or it unlocks and
\* returns
WriterStep(w) ==
    \/ WriteLock(w) /\ UNCHANGED logs
    \/ WriteUnlock(w) /\ UNCHANGED logs
    \/ \E r \in ConcTransportResults : EnHigh(w, r) /\ UNCHANGED logs
    \/ \E r \in ConcTransportResults : EnLow(w, r) /\ UNCHANGED logs

NextLive ==
    \/ \E w \in Writers : WriteEnter(w, MaxConcCount, ConcUserPatterns) /\ UNCHANGED logs
    \/ \E w \in Writers : WriterStep(w)

\* the scheduler runs every runnable thread, every transport write returns,
\* and mutex_lock returns once the mutex stays free
SpecLive ==
    /\ InitLive
    /\ [][NextLive]_vars
    /\ \A w \in Writers : WF_vars(WriterStep(w))

(* ---------------------------------------------------------------------- *)
(* Properties of one call (SpecSeq)                                        *)
(* ---------------------------------------------------------------------- *)
\* no transport write has failed so far
NoFailure == \A k \in 1 .. Len(bus) : bus[k].r = 0

\* the caller's thread has returned from op
Returned(op) == th["h"].pc = "done" /\ th["h"].op = op

\* the caller's lcd1602_write has called lcd_write_buffer on the bytes it
\* copied into kbuf, and has returned
BufferWritten == Returned("write") /\ th["h"].buf # <<>>

\* bits 7..4 of a port image
DataBits(img) == img \div 16

\* the data sends recorded so far, in order
DataSends == SelectSeq(sends, LAMBDA s : s.fn = "byte" /\ s.mode # 0)

\* the positions in sends of the row-1 address-set command
Row1Sends ==
    {k \in 1 .. Len(sends) :
        sends[k].fn = "byte" /\ sends[k].mode = 0 /\ sends[k].val = LCD_ROW1}

\* C1: lcd_send_command(b) and lcd_send_data(b), when no transport write
\* fails, make exactly two lcd_write_nibble calls, the first with the high
\* nibble of b and the second with the low nibble of b (each placed on bits
\* 7..4 of the argument, as lcd_write_byte passes it), both with the same
\* mode (0 for a command, RS for data), and every port image they transmit
\* carries that RS value and the context's backlight bit.
C1_ByteIsHighThenLowNibble ==
    \A op \in {"cmd", "data"} :
        (Returned(op) /\ NoFailure) =>
            /\ Len(nibs) = 2
            /\ nibs[1].nibble = (th["h"].arg \div 16) * 16
            /\ nibs[2].nibble = (th["h"].arg % 16) * 16
            /\ nibs[1].mode = nibs[2].mode
            /\ nibs[1].mode = (IF op = "data" THEN LCD_RS ELSE 0)
            /\ Len(bus) = 4
            /\ \A k \in 1 .. 4 :
                /\ BitAnd(bus[k].img, LCD_RS) = (IF op = "data" THEN LCD_RS ELSE 0)
                /\ BitAnd(bus[k].img, LCD_BL) = backlight

\* lcd_send_data(0x4A) has returned 0 after four transport writes
C1_Witness ==
    /\ Returned("data")
    /\ NoFailure
    /\ th["h"].arg = 74
    /\ th["h"].result = 0
    /\ Len(bus) = 4

\* C2: for every byte b sent through lcd_send_command or lcd_send_data with
\* no transport failure, bits 7..4 of both port images of the first nibble
\* write equal b >> 4 and bits 7..4 of both port images of the second nibble
\* write equal b & 0x0F.
C2_PortImagesCarryTheNibbles ==
    \A op \in {"cmd", "data"} :
        (Returned(op) /\ NoFailure) =>
            /\ Len(bus) = 4
            /\ DataBits(bus[1].img) = th["h"].arg \div 16
            /\ DataBits(bus[2].img) = th["h"].arg \div 16
            /\ DataBits(bus[3].img) = th["h"].arg % 16
            /\ DataBits(bus[4].img) = th["h"].arg % 16

\* the data bits of the twelve nibble writes of the init sequence:
\* 0x3 three times, 0x2, then 0x28, 0x0C, 0x01, 0x06 high nibble first
InitNibbles == <<3, 3, 3, 2, 2, 8, 0, 12, 0, 1, 0, 6>>

\* C3: a run of lcd_init_display with no transport failure emits, in order
\* and with nothing else, command-mode nibble writes whose data bits are
\* 0x3, 0x3, 0x3, 0x2 and then the nibbles of 0x28, 0x0C, 0x01, 0x06, and
\* returns 0.
C3_InitSequenceOnTheBus ==
    (Returned("init") /\ NoFailure) =>
        /\ th["h"].result = 0
        /\ Len(bus) = 2 * Len(InitNibbles)
        /\ \A k \in 1 .. Len(InitNibbles) :
            /\ DataBits(bus[2 * k - 1].img) = InitNibbles[k]
            /\ DataBits(bus[2 * k].img) = InitNibbles[k]
            /\ BitAnd(bus[2 * k - 1].img, LCD_RS) = 0
            /\ BitAnd(bus[2 * k].img, LCD_RS) = 0

\* C7: a buffer write of more than 16 bytes with no transport failure sends
\* the row-1 address-set command 0xC0 exactly once, right after the data
\* send of index 15 and right before the data send of index 16.
C7_Row1OnceBeforeIndex16 ==
    (BufferWritten /\ NoFailure /\ th["h"].count > LCD_COLS) =>
        /\ Cardinality(Row1Sends) = 1
        /\ \A k \in Row1Sends :
            /\ k > 1
            /\ k < Len(sends)
            /\ sends[k - 1].mode # 0
            /\ sends[k - 1].idx = LCD_COLS - 1
            /\ sends[k + 1].mode # 0
            /\ sends[k + 1].idx = LCD_COLS

\* a write of 17 bytes has returned: 17 data sends and the row-1 command
C7_Witness ==
    /\ BufferWritten
    /\ NoFailure
    /\ th["h"].count = LCD_COLS + 1
    /\ Len(DataSends) = LCD_COLS + 1
    /\ Row1Sends # {}

\* C8: a buffer write of at most 16 bytes (16 included) never sends the
\* row-1 address-set command 0xC0, whether or not it runs to its end.
C8_NoRow1UpTo16 ==
    (th["h"].op = "write" /\ th["h"].count <= LCD_COLS) => Row1Sends = {}

\* a write of exactly 16 bytes has returned after its 16 data sends
C8_Witness ==
    /\ BufferWritten
    /\ NoFailure
    /\ th["h"].count = LCD_COLS
    /\ Len(DataSends) = LCD_COLS
    /\ Len(sends) = LCD_COLS + 2

\* what C9 says of a returned external write
TruncatedTo32ReportsCount ==
    /\ Len(DataSends) = LCD_CHARS
    /\ \A k \in 1 .. Len(DataSends) :
        /\ DataSends[k].idx = k - 1
        /\ DataSends[k].val = UByte(th["h"].pat, k - 1)
    /\ th["h"].result = th["h"].count

\* C9 as stated: every external write of more than 32 bytes in which no
\* transport write fails (counts above sizeof(kbuf) included) makes exactly
\* 32 data sends, of the input's bytes 0..31, and returns the original count.
C9_Original ==
    (Returned("write") /\ NoFailure /\ th["h"].count > LCD_CHARS) =>
        TruncatedTo32ReportsCount

\* C9 as amended: every external write of more than 32 bytes whose
\* copy_from_user succeeds and in which no transport write fails makes
\* exactly 32 data sends, of the input's bytes 0..31, and returns the
\* original count.
C9_TruncatedTo32ReportsCount ==
    (BufferWritten /\ NoFailure /\ th["h"].count > LCD_CHARS) =>
        TruncatedTo32ReportsCount

\* a write of more bytes than kbuf holds has returned its count
C9_Witness ==
    /\ BufferWritten
    /\ NoFailure
    /\ th["h"].count > KBUF_SIZE
    /\ th["h"].result = th["h"].count
    /\ Len(DataSends) = LCD_CHARS

\* C10: a buffer write of n >= 1 bytes with no transport failure sends Clear,
\* then Home, then the data sends of the input's bytes 0..min(n,32)-1 in
\* increasing index order, each once and with its own value, every data send
\* after both Clear and Home, and returns n.
C10_ClearHomeThenBytesInOrder ==
    (BufferWritten /\ NoFailure /\ th["h"].count >= 1) =>
        /\ Len(sends) >= 2
        /\ sends[1] = lcd_send_command(LCD_CLEAR)
        /\ sends[2] = lcd_send_command(LCD_HOME)
        /\ Len(DataSends) = Min(th["h"].count, LCD_CHARS)
        /\ \A k \in 1 .. Len(DataSends) :
            /\ DataSends[k].idx = k - 1
            /\ DataSends[k].val = UByte(th["h"].pat, k - 1)
        /\ Len(sends) = 2 + Len(DataSends) + Cardinality(Row1Sends)
        /\ th["h"].result = th["h"].count

\* the spec's scenario: 20 bytes "ABCDEFGHIJKLMNOPQRST" written, 20 returned
C10_Witness ==
    /\ BufferWritten
    /\ NoFailure
    /\ th["h"].count = 20
    /\ th["h"].pat = <<65, 1>>
    /\ th["h"].result = 20
    /\ Len(DataSends) = 20
    /\ DataSends[20].val = 84

(* ---------------------------------------------------------------------- *)
(* Properties of the lifecycle (Spec)                                      *)
(* ---------------------------------------------------------------------- *)
\* the port image of the last transport write of a complete init sequence
InitLastImage ==
    LET s == lcd_init_display[Len(lcd_init_display)]
    IN  EnLowImage(lcd_write_nibble(lcd_write_byte(s.val, 1), s.mode, LCD_BL))

\* C4: in every execution of lcd1602_probe the init sequence has run to
\* completion before misc_register exposes the write interface: when probe
\* reaches misc_register, and whenever the interface is exposed, probe has
\* issued transport writes and, at misc_register, the most recent one is the
\* last write of the init sequence.
C4_InitCompleteBeforeRegister ==
    /\ th["probe"].pc = "register" =>
        /\ th["probe"].wrote
        /\ last.t = "probe"
        /\ last.img = InitLastImage
    /\ registered => th["probe"].wrote

\* writer w has issued a transport write of its lcd_write_buffer call and
\* has not yet returned from it and released the lock
InSequence(w) == th[w].op = "write" /\ th[w].pc = "run" /\ th[w].wrote

\* C5: two concurrent lcd1602_write calls never interleave on the bus: while
\* a call is between its first transport write and its return from
\* lcd_write_buffer, no other write call issues a transport write, so the
\* most recent transport write of any write call is its own.
C5_WriteCallsDoNotInterleave ==
    \A w \in Writers :
        (InSequence(w) /\ last.t \in Writers) => last.t = w

\* one write call is blocked in mutex_lock while the other is in the middle
\* of its sequence
C5_Witness ==
    /\ th["w1"].pc = "lock"
    /\ InSequence("w2")
    /\ Running("w2")
    /\ th["w2"].phase = "lo"
    /\ last.t = "w2"

\* C6: every transport write is issued by a thread that holds lcd->lock.
C6_EveryWriteUnderLock == last.t # "none" => last.held

\* C11: an lcd1602_write call with count 0 issues no transport write (no
\* Clear, no Home), does not take lcd->lock, and returns 0.
C11_ZeroLengthWriteDoesNothing ==
    (th["h"].op = "write" /\ th["h"].count = 0) =>
        /\ th["h"].pc = "done"
        /\ th["h"].result = 0
        /\ bus = <<>>
        /\ sends = <<>>
        /\ lock = "none"

\* lcd1602_write(count = 0) has returned
C11_Witness ==
    /\ Returned("write")
    /\ th["h"].count = 0
    /\ th["h"].result = 0
    /\ last = NoWrite

\* the position in bus of the first failed transport write, 0 if none
FirstFailure ==
    IF NoFailure THEN 0
    ELSE CHOOSE k \in 1 .. Len(bus) :
            bus[k].r < 0 /\ \A j \in 1 .. k - 1 : bus[j].r = 0

\* C12: in lcd_send_command, lcd_send_data and lcd1602_write, a failed
\* transport write is the last transport write of the call (the low nibble
\* is not sent after the high nibble failed, no later byte is sent, nothing
\* is sent again), and the call returns the value that transport write
\* returned, not a byte count.
C12_FailureAbortsAndPropagates ==
    \A op \in {"cmd", "data", "write"} :
        (th["h"].op = op /\ ~NoFailure) =>
            /\ FirstFailure = Len(bus)
            /\ th["h"].pc \in {"run", "done"}
            /\ th["h"].ret = bus[Len(bus)].r
            /\ th["h"].pc = "run" => th["h"].todo = <<>>
            /\ th["h"].pc = "done" => th["h"].result = bus[Len(bus)].r

\* lcd1602_write has returned -EREMOTEIO, the result of the transport write
\* that failed in the low nibble of its third data byte
C12_Witness ==
    /\ Returned("write")
    /\ th["h"].result = -121
    /\ Len(DataSends) = 3
    /\ Len(nibs) = 10
    /\ Len(bus) = 19
    /\ bus[19].r = -121

\* C13: a transport write that fails while lcd1602_probe sets up the display
\* (for the claim: in the k-th nibble write of the init sequence) makes
\* probe report failure without exposing the write interface: after such a
\* write the misc device is not registered, and when probe returns it
\* returns an error.
C13_FailedWriteFailsAttach ==
    (last.t = "probe" /\ last.r < 0) =>
        /\ ~registered
        /\ th["probe"].pc = "done" => th["probe"].result < 0

\* C14: lcd1602_probe fails only when i2c_check_functionality, devm_kzalloc,
\* the display set-up or misc_register fails, and when all of them succeed it
\* returns 0 with lcd->backlight on: once probe has returned, an error result
\* means that the capability was missing, or the allocation failed, or
\* misc_register returned an error, or probe had issued a transport write
\* (which may have failed); and a successful misc_register means result 0
\* and backlight LCD_BL.
C14_AttachFailsOnlyWhenAStepFails ==
    LET p == th["probe"]
    IN  p.pc = "done" =>
            /\ p.result < 0 =>
                \/ ~p.env.capable
                \/ ~p.env.allocated
                \/ p.env.reg < 0
                \/ p.wrote
            /\ (p.env.capable /\ p.env.allocated /\ p.env.reg = 0) =>
                /\ p.result = 0
                /\ backlight = LCD_BL

\* C15: when i2c_check_functionality says the adapter lacks I2C_FUNC_I2C,
\* lcd1602_probe has returned -EIO, no context was ever allocated, no
\* transport write was ever issued, and the misc device is not registered.
C15_NoCapabilityNoContext ==
    ~th["probe"].env.capable =>
        /\ th["probe"].pc = "done"
        /\ th["probe"].result = -EIO
        /\ ctx = "none"
        /\ backlight = 0
        /\ ~registered
        /\ last = NoWrite
        /\ \A t \in Threads : ~th[t].wrote

\* lcd1602_probe has returned -EIO on an adapter without I2C_FUNC_I2C
C15_Witness ==
    /\ th["probe"].op = "probe"
    /\ ~th["probe"].env.capable
    /\ th["probe"].env.allocated
    /\ th["probe"].result = -EIO

\* C16: lcd1602_remove sends exactly one command, Clear, and whatever its
\* transport writes returned it frees the context, leaves the misc device
\* deregistered and returns 0.
C16_DetachClearsOnceAndSucceeds ==
    Returned("remove") =>
        /\ sends = <<lcd_send_command(LCD_CLEAR)>>
        /\ th["h"].result = 0
        /\ ctx = "freed"
        /\ ~registered

\* lcd1602_remove has returned 0 after the second transport write of its
\* Clear failed
C16_Witness ==
    /\ Returned("remove")
    /\ Len(bus) = 2
    /\ bus[2].r < 0
    /\ th["h"].result = 0
    /\ ctx = "freed"

\* C17: every port image written to the expander, by lcd_init_display,
\* lcd_send_command, lcd_send_data, lcd1602_write and lcd1602_remove, has
\* the RW bit (0x02) clear.
C17_RwAlwaysZero ==
    \A k \in 1 .. Len(bus) : BitAnd(bus[k].img, LCD_RW) = 0

\* lcd1602_write has sent two data bytes (RS set) without a failure
C17_Witness ==
    /\ Returned("write")
    /\ NoFailure
    /\ Len(DataSends) = 2
    /\ BitAnd(bus[Len(bus)].img, LCD_RS) = LCD_RS

\* C18: the backlight bit (0x08) of every port image written to the
\* expander equals lcd->backlight as it is when the image is written, for
\* the writes of probe, of concurrent lcd1602_write calls and of remove.
C18_BacklightBitIsContextBacklight ==
    last.t # "none" => BitAnd(last.img, LCD_BL) = backlight

\* a writer has just issued the second transport write of a nibble while
\* the context is live
C18_Witness ==
    /\ last.t = "w1"
    /\ th["w1"].pc = "run"
    /\ th["w1"].phase = "hi"
    /\ th["w1"].half = 1
    /\ ctx = "live"
    /\ BitAnd(last.img, LCD_BL) = LCD_BL

\* C19: the transport writes come in pairs, one pair per lcd_write_nibble
\* call: the first image of a pair has EN set and is followed by udelay(1),
\* the second is the same image with only EN cleared and is followed by
\* udelay(50); a nibble write starts only after the pair before it is
\* complete, and a call that returns with no failed write has issued exactly
\* two transport writes per nibble write.
C19_NibbleIsEnHighThenEnLow ==
    /\ Len(nibs) = (Len(bus) + 1) \div 2
    /\ \A j \in 1 .. Len(nibs) :
        /\ BitAnd(bus[2 * j - 1].img, LCD_EN) = LCD_EN
        /\ bus[2 * j - 1].r = 0 => bus[2 * j - 1].us = EN_PULSE_US
        /\ (2 * j <= Len(bus)) =>
            /\ bus[2 * j - 1].r = 0
            /\ bus[2 * j].img = bus[2 * j - 1].img - LCD_EN
            /\ bus[2 * j].r = 0 => bus[2 * j].us = EN_SETTLE_US
    /\ (th["h"].pc = "done" /\ NoFailure) => Len(bus) = 2 * Len(nibs)

\* lcd_send_command has returned 0 after two nibble writes of two transport
\* writes each
C19_Witness ==
    /\ Returned("cmd")
    /\ NoFailure
    /\ Len(nibs) = 2
    /\ Len(bus) = 4
    /\ bus[3].us = EN_PULSE_US
    /\ bus[4].us = EN_SETTLE_US

\* C20: from the moment lcd1602_probe has set lcd->backlight = LCD_BL, the
\* field keeps that value for as long as the context lives, whatever
\* lcd1602_write calls (of any input, failed or not), the greeting and
\* lcd1602_remove's Clear do.
C20_BacklightStaysOn ==
    ctx = "live" => backlight = LCD_BL

\* lcd1602_remove is sending its Clear after one lcd1602_write call failed
\* on the bus and another returned its count
C20_Witness ==
    /\ th["remove"].pc = "run"
    /\ th["remove"].wrote
    /\ th["w1"].pc = "done"
    /\ th["w1"].result = -EIO
    /\ th["w2"].pc = "done"
    /\ th["w2"].result = 1
    /\ ctx = "live"
    /\ backlight = LCD_BL

\* C21: a thread owns lcd->lock only while it is inside lcd1602_write
\* between mutex_lock and mutex_unlock, so every call that took the lock has
\* released it when it returns, whether lcd_write_buffer returned 0 or an
\* error; and when the scheduler is fair and transport writes return, a
\* caller waiting in mutex_lock eventually owns the lock and every
\* lcd1602_write call eventually returns.
C21_LockReleasedAndWritesReturn ==
    /\ [](\A w \in Writers :
            lock = w => (th[w].op = "write" /\ th[w].pc = "run"))
    /\ \A w \in Writers : (th[w].pc = "lock") ~> (lock = w)
    /\ \A w \in Writers : (th[w].pc \in {"lock", "run"}) ~> (th[w].pc = "done")

\* one caller waits in mutex_lock while the owner of the lock is about to
\* unlock it after a failed transport write
C21_Witness ==
    /\ th["w1"].pc = "lock"
    /\ lock = "w2"
    /\ th["w2"].pc = "run"
    /\ th["w2"].todo = <<>>
    /\ th["w2"].ret = -EIO

\* the number of bytes copy_from_user put into kbuf (kbuf also holds the
\* terminator written after them)
Copied == Len(th["h"].buf) - 1

\* C22: for every lcd1602_write call with count >= 1 whose copy succeeded
\* (counts 63, 64 and above included), at most 63 bytes were copied into
\* the 64-byte kbuf, the terminator index to_copy is at most 63 and so
\* inside kbuf, and every index i at which lcd_write_buffer reads buf[i]
\* satisfies 0 <= i < min(to_copy, 32), so that only copied bytes of kbuf
\* are read.
C22_BufferAccessInBounds ==
    (th["h"].op = "write" /\ th["h"].count >= 1 /\ th["h"].buf # <<>>) =>
        /\ Copied = Min(th["h"].count, 63)
        /\ Copied <= KBUF_SIZE - 1
        /\ Len(th["h"].buf) <= KBUF_SIZE
        /\ \A k \in 1 .. Len(sends) :
            sends[k].mode # 0 =>
                /\ 0 <= sends[k].idx
                /\ sends[k].idx < Min(Copied, 32)
        /\ \A c \in 1 .. Len(th["h"].todo) :
            \A k \in 1 .. Len(th["h"].todo[c]) :
                th["h"].todo[c][k].mode # 0 =>
                    /\ 0 <= th["h"].todo[c][k].idx
                    /\ th["h"].todo[c][k].idx < Min(Copied, 32)

\* lcd1602_write(count = 64) has copied 63 bytes, sent 32 of them and
\* returned
C22_Witness ==
    /\ Returned("write")
    /\ th["h"].count = KBUF_SIZE
    /\ Copied = 63
    /\ NoFailure
    /\ Len(DataSends) = 32
    /\ DataSends[32].idx = 31

\* C23: as long as no transport write has failed, the most recent port
\* image on the bus has EN set only while lcd_write_nibble is between its
\* first and its second transport write; after every completed nibble
\* write, and so after every completed byte write, init sequence and buffer
\* write, it has EN clear.
C23_EnClearOutsideNibbleWrite ==
    (bus # <<>> /\ NoFailure) =>
        /\ BitAnd(bus[Len(bus)].img, LCD_EN) = LCD_EN =>
            (th["h"].pc = "run" /\ th["h"].phase = "lo")
        /\ th["h"].pc = "done" => BitAnd(bus[Len(bus)].img, LCD_EN) = 0

\* lcd_init_display has returned 0: its last image is on the bus with EN
\* clear
C23_Witness ==
    /\ Returned("init")
    /\ NoFailure
    /\ Len(nibs) = Len(InitNibbles)
    /\ BitAnd(bus[Len(bus)].img, LCD_EN) = 0
    /\ BitAnd(bus[Len(bus) - 1].img, LCD_EN) = LCD_EN

====
